---- MODULE Spec2Model ----
(***************************************************************************)
(* State-machine model of src/src/lib.rs: the token discovery handler      *)
(* map_tokens and the balance ledger handler store_transfers.              *)
(*                                                                         *)
(* Byte strings (Vec<u8>, [u8; N]) are sequences of naturals 0..255.       *)
(* Rust Strings that come from Hex(..) are TLA+ strings; Rust Strings that *)
(* come from a payload are the sequence of their UTF-8 bytes.              *)
(***************************************************************************)
EXTENDS Integers, Sequences, FiniteSets, TLC

(***************************************************************************)
(* Bounds of the model.                                                    *)
(***************************************************************************)
\* transactions of a block
MaxTrx == 2
\* calls of one transaction
MaxCalls == 2
\* transfers handed to store_transfers
MaxTransfers == 2
\* largest ordinal a transfer carries
MaxOrdinal == 1
\* logs of a block handed to map_transfers
MaxLogs == 2

(***************************************************************************)
(* Program constants.                                                      *)
(***************************************************************************)
\* const TRACKED_CONTRACT: [u8; 20] = hex!("bc4ca0eda7647a8ab7c2061c2e118a18a936f13d")
TRACKED_CONTRACT ==
    <<188, 76, 160, 237, 167, 100, 122, 138, 183, 194,
      6, 28, 46, 17, 138, 24, 169, 54, 241, 61>>

\* substreams_ethereum::NULL_ADDRESS, the all-zero 20-byte address
NULL_ADDRESS == [i \in 1..20 |-> 0]

\* const INITIALIZE_METHOD_HASH: [u8; 4] = hex!("1459457a")
INITIALIZE_METHOD_HASH == <<20, 89, 69, 122>>

\* hex!("0000000000004946c0e9f43f4dee607b0ef1fa1c")
FACTORY_1 ==
    <<0, 0, 0, 0, 0, 0, 73, 70, 192, 233,
      244, 63, 77, 238, 96, 123, 14, 241, 250, 28>>

\* hex!("00000000687f5b66638856396bee28c1db0178d1")
FACTORY_2 ==
    <<0, 0, 0, 0, 104, 127, 91, 102, 99, 136,
      86, 57, 107, 238, 40, 193, 219, 1, 120, 209>>

\* the method selectors of rpc_utils: decimals(), name(), symbol()
DECIMALS == <<49, 60, 229, 103>>
NAME == <<6, 253, 222, 3>>
SYMBOL == <<149, 216, 155, 65>>

(***************************************************************************)
(* Byte helpers.                                                           *)
(***************************************************************************)
\* input[a..b] of Rust: 0-based, half-open; the caller checks the range
Slice(s, a, b) == SubSeq(s, a + 1, b)

\* vec[i] of Rust is in range iff i < vec.len(); otherwise the access panics
InRange(vec, i) == i < Len(vec)

\* vec[i] of Rust (0-based), for an index in range
At(vec, i) == vec[i + 1]

Zeros(n) == [i \in 1..n |-> 0]

HexDigit ==
    <<"0", "1", "2", "3", "4", "5", "6", "7",
      "8", "9", "a", "b", "c", "d", "e", "f">>

\* Hex(bytes).to_string(): two lower-case hex digits per byte
RECURSIVE Hex(_)
Hex(bytes) ==
    IF bytes = <<>> THEN ""
    ELSE HexDigit[(Head(bytes) \div 16) + 1] \o HexDigit[(Head(bytes) % 16) + 1]
         \o Hex(Tail(bytes))

\* big-endian value of a short byte string
RECURSIVE BigEndian(_)
BigEndian(bytes) ==
    IF bytes = <<>> THEN 0
    ELSE BigEndian(SubSeq(bytes, 1, Len(bytes) - 1)) * 256 + bytes[Len(bytes)]

(***************************************************************************)
(* Typed return decoder (eth_utils).  A result is [tag, val]: tag "Ok"     *)
(* with the decoded value, tag "Err" after a failed decode, tag "Unset"    *)
(* for a local variable that has not been assigned.                        *)
(***************************************************************************)
OkResult(v) == [tag |-> "Ok", val |-> v]
ErrUint == [tag |-> "Err", val |-> 0]
ErrString == [tag |-> "Err", val |-> <<>>]
UnsetUint == [tag |-> "Unset", val |-> 0]
UnsetString == [tag |-> "Unset", val |-> <<>>]

\* the value of a 32-byte word as a length or an offset: -1 when it exceeds
\* 2^24 - 1, which is beyond every payload of the model
WordValue(word) ==
    IF \E i \in 1..29 : word[i] # 0 THEN -1 ELSE BigEndian(SubSeq(word, 30, 32))

\* read_uint32: the low-order 4 bytes of the first 32-byte word, big-endian
read_uint32(input) ==
    IF Len(input) < 32 THEN ErrUint
    ELSE OkResult(BigEndian(Slice(input, 28, 32)))

IsCont(b) == b >= 128 /\ b <= 191

\* std::str::from_utf8 accepts exactly the well-formed UTF-8 byte strings
RECURSIVE Utf8Valid(_)
Utf8Valid(b) ==
    LET n == Len(b)
        Rest(k) == SubSeq(b, k + 1, n)
    IN  IF n = 0 THEN TRUE
        ELSE IF b[1] < 128 THEN Utf8Valid(Rest(1))
        ELSE IF b[1] >= 194 /\ b[1] <= 223
            THEN n >= 2 /\ IsCont(b[2]) /\ Utf8Valid(Rest(2))
        ELSE IF b[1] = 224
            THEN n >= 3 /\ b[2] >= 160 /\ b[2] <= 191 /\ IsCont(b[3])
                 /\ Utf8Valid(Rest(3))
        ELSE IF (b[1] >= 225 /\ b[1] <= 236) \/ b[1] = 238 \/ b[1] = 239
            THEN n >= 3 /\ IsCont(b[2]) /\ IsCont(b[3]) /\ Utf8Valid(Rest(3))
        ELSE IF b[1] = 237
            THEN n >= 3 /\ b[2] >= 128 /\ b[2] <= 159 /\ IsCont(b[3])
                 /\ Utf8Valid(Rest(3))
        ELSE IF b[1] = 240
            THEN n >= 4 /\ b[2] >= 144 /\ b[2] <= 191 /\ IsCont(b[3])
                 /\ IsCont(b[4]) /\ Utf8Valid(Rest(4))
        ELSE IF b[1] >= 241 /\ b[1] <= 243
            THEN n >= 4 /\ IsCont(b[2]) /\ IsCont(b[3]) /\ IsCont(b[4])
                 /\ Utf8Valid(Rest(4))
        ELSE IF b[1] = 244
            THEN n >= 4 /\ b[2] >= 128 /\ b[2] <= 143 /\ IsCont(b[3])
                 /\ IsCont(b[4]) /\ Utf8Valid(Rest(4))
        ELSE FALSE

\* read_string: offset word, length word at the offset, then the data bytes
read_string(input) ==
    IF Len(input) < 32 THEN ErrString
    ELSE LET offset == WordValue(Slice(input, 0, 32))
         IN  IF offset < 0 \/ offset + 32 > Len(input) THEN ErrString
             ELSE LET length == WordValue(Slice(input, offset, offset + 32))
                  IN  IF length < 0 \/ offset + 32 + length > Len(input)
                          THEN ErrString
                      ELSE LET data == Slice(input, offset + 32, offset + 32 + length)
                           IN  IF Utf8Valid(data) THEN OkResult(data)
                               ELSE ErrString

(***************************************************************************)
(* Payloads the call service answers with.                                 *)
(***************************************************************************)
\* a 32-byte word holding a small number
Word(n) == Zeros(29) \o <<(n \div 65536) % 256, (n \div 256) % 256, n % 256>>

\* the standard return layout of a dynamic string of at most 32 bytes
EncodeString(data) == Word(32) \o Word(Len(data)) \o data \o Zeros(32 - Len(data))

\* "rev": the reason a failed call carries as raw bytes
ErrorBytes == <<114, 101, 118>>

\* "TOKEN" and "TKN"
NameBytes == <<84, 79, 75, 69, 78>>
SymbolBytes == <<84, 75, 78>>

RpcResponse(f, r) == [failed |-> f, raw |-> r]

\* what the service may answer to a call of the method `data`
Answers(data) ==
    IF data = DECIMALS THEN
        { RpcResponse(TRUE, ErrorBytes),
          RpcResponse(FALSE, Word(18)),
          RpcResponse(FALSE, <<0, 0, 18>>) }
    ELSE IF data = NAME THEN
        { RpcResponse(TRUE, ErrorBytes),
          RpcResponse(FALSE, EncodeString(NameBytes)),
          RpcResponse(FALSE, Word(32) \o Word(64) \o NameBytes) }
    ELSE
        { RpcResponse(TRUE, ErrorBytes),
          RpcResponse(FALSE, EncodeString(SymbolBytes)),
          RpcResponse(FALSE, EncodeString(<<255, 75, 78>>)) }

(***************************************************************************)
(* Read-only call gateway (rpc_utils::create_rpc_calls and the service     *)
(* behind substreams_ethereum::rpc::eth_call).                             *)
(***************************************************************************)
\* one request per selector, against the same address, in selector order
create_rpc_calls(addr, method_signatures) ==
    [i \in 1..Len(method_signatures) |->
        [to_addr |-> addr, data |-> method_signatures[i]]]

\* the response lists eth_call may return: one result per request, in
\* request order
eth_call(rpc_calls) ==
    { rs \in [1..Len(rpc_calls) -> UNION { Answers(rpc_calls[i].data) :
                                            i \in 1..Len(rpc_calls) }] :
        \A i \in 1..Len(rpc_calls) : rs[i] \in Answers(rpc_calls[i].data) }

(***************************************************************************)
(* Inputs of map_tokens: the calls a transaction trace may hold.           *)
(* code_changes is the list of the new_code lengths of the call's          *)
(* code-change records (the code reads nothing else of them).              *)
(***************************************************************************)
TokenA == Zeros(19) \o <<161>>
TokenB == <<177>> \o Zeros(19)
Deployer == Zeros(19) \o <<208>>

CallTypes == {"CREATE", "CALL", "STATIC"}

Inputs ==
    { <<20, 89, 69>>,
      INITIALIZE_METHOD_HASH,
      INITIALIZE_METHOD_HASH \o <<7>>,
      <<20, 89, 69, 123>> }

CodeChanges == { <<>>, <<150>>, <<100, 51>> }

Callers == { FACTORY_1, FACTORY_2, Deployer }

Calls ==
    [ state_reverted : BOOLEAN,
      call_type : CallTypes,
      input : Inputs,
      code_changes : CodeChanges,
      caller : Callers,
      address : {TokenA, TokenB} ]

\* the value of `call` before the first iteration
NoCall ==
    [ state_reverted |-> FALSE, call_type |-> "NONE", input |-> <<>>,
      code_changes |-> <<>>, caller |-> <<>>, address |-> <<>> ]

(***************************************************************************)
(* State.                                                                  *)
(***************************************************************************)
VARIABLES
    \* map_tokens
    pc,                 \* "loop", "decimals", "name_symbol", "done", "panicked"
    ti,                 \* transactions entered so far (outer loop)
    ci,                 \* calls of the current transaction entered so far
    call,               \* the call of the current iteration
    outcome,            \* how the current iteration ended, or "pending"
    tokens,             \* let mut tokens
    response_decimal,   \* responses of the decimals batch
    decoded_decimals,
    responses,          \* responses of the name/symbol batch
    decoded_name,
    decoded_symbol,
    rpcLog,             \* the request batches issued for the current call
    lastOwner,          \* <<ti, ci>> of the call the last batch was issued for
    verified,           \* history: the calls whose three answers were all good
    reads,              \* history: <<batch, index>> of the response-list
                        \* elements read for the current call
    \* store_transfers
    spc,                \* "loop", "done"
    transfers,          \* the Transfers message
    si,                 \* transfers processed so far
    made,               \* per processed transfer, its s.add applications
    ledger,             \* the store: key -> value, for the keys ever added to
    \* map_transfers
    xpc,                \* "iterate", "done"
    logs,               \* the logs of the block's receipts, in block order
    li,                 \* logs the events iterator has gone past
    out                 \* the Transfer records collected so far

tokenVars ==
    << pc, ti, ci, call, outcome, tokens, response_decimal, decoded_decimals,
       responses, decoded_name, decoded_symbol, rpcLog, lastOwner, verified,
       reads >>

storeVars == << spc, transfers, si, made, ledger >>

xferVars == << xpc, logs, li, out >>

vars == << tokenVars, storeVars, xferVars >>

(***************************************************************************)
(* map_tokens: filtering and classification, lines 67-116.                 *)
(***************************************************************************)
\* line 70: only creations and message calls are looked at
KindOfInterest(c) == c.call_type = "CREATE" \/ c.call_type = "CALL"

\* (variant: the slice is taken without the length test, and taking it of
\* an input shorter than 4 bytes panics)
SelectorCheck_NoLen(input) ==
    IF Len(input) < 4 THEN "panic"
    ELSE IF Slice(input, 0, 4) # INITIALIZE_METHOD_HASH THEN "skip"
    ELSE "pass"

\* lines 72-73, for a message call: "skip" unless the input starts with the
\* initialization selector; the slice is taken only of an input of 4 bytes
\* or more
SelectorCheck(input) ==
    IF Len(input) < 4 \/ Slice(input, 0, 4) # INITIALIZE_METHOD_HASH THEN "skip"
    ELSE "pass"

\* lines 82-85: the sum of the new-code lengths of the code-change records
RECURSIVE code_change_len(_)
code_change_len(code_changes) ==
    IF code_changes = <<>> THEN 0
    ELSE Head(code_changes) + code_change_len(Tail(code_changes))

\* line 95 (variant: the boundary value is kept)
TooSmall_Strict(len) == len < 150

\* line 95

TooSmall(len) == len <= 150

\* lines 111-112 (variant: the second address is forgotten)
KnownCaller_FirstOnly(caller) == caller = FACTORY_1

\* lines 111-112

KnownCaller(caller) == caller = FACTORY_1 \/ caller = FACTORY_2

\* (variant: the state_reverted test of line 67 is left out)
Classify_IgnoresReverted(c) ==
    IF ~KindOfInterest(c) THEN "kind"
    ELSE IF c.call_type = "CALL" /\ SelectorCheck(c.input) # "pass"
        THEN (IF SelectorCheck(c.input) = "panic" THEN "panic" ELSE "selector")
    ELSE IF c.call_type = "CREATE" /\ TooSmall(code_change_len(c.code_changes))
        THEN "too_small"
    ELSE IF KnownCaller(c.caller) THEN "known_caller"
    ELSE "candidate"

\* lines 67-116: which `continue` the call takes, or "candidate"
Classify(c) ==
    IF c.state_reverted THEN "reverted"
    ELSE IF ~KindOfInterest(c) THEN "kind"
    ELSE IF c.call_type = "CALL" /\ SelectorCheck(c.input) # "pass"
        THEN (IF SelectorCheck(c.input) = "panic" THEN "panic" ELSE "selector")
    ELSE IF c.call_type = "CREATE" /\ TooSmall(code_change_len(c.code_changes))
        THEN "too_small"
    ELSE IF KnownCaller(c.caller) THEN "known_caller"
    ELSE "candidate"

(***************************************************************************)
(* map_tokens: verification, lines 118-194.                                *)
(***************************************************************************)
\* the indices the code reads the response lists at
DecimalsIndex == 0
NameFailedIndex == 0
SymbolFailedIndex == 1
NameIndex == 1
SymbolIndex == 2

\* (variant: the decode error of lines 133-140 is not tested)
DecimalsStep_NoDecodeCheck(rs) ==
    IF ~InRange(rs, DecimalsIndex)
        THEN [pc |-> "panicked", outcome |-> "panic", decoded |-> UnsetUint]
    ELSE IF At(rs, DecimalsIndex).failed
        THEN [pc |-> "loop", outcome |-> "decimals_failed", decoded |-> UnsetUint]
    ELSE [pc |-> "name_symbol", outcome |-> "pending",
          decoded |-> read_uint32(At(rs, DecimalsIndex).raw)]

\* (variant: the failed flag of lines 122-130 is not tested)
DecimalsStep_NoFailedCheck(rs) ==
    IF ~InRange(rs, DecimalsIndex)
        THEN [pc |-> "panicked", outcome |-> "panic", decoded |-> UnsetUint]
    ELSE LET d == read_uint32(At(rs, DecimalsIndex).raw)
         IN  IF d.tag = "Err"
                 THEN [pc |-> "loop", outcome |-> "decimals_undecodable",
                       decoded |-> d]
             ELSE [pc |-> "name_symbol", outcome |-> "pending", decoded |-> d]

\* lines 122-140, given the responses of the decimals batch
DecimalsStep(rs) ==
    IF ~InRange(rs, DecimalsIndex)
        THEN [pc |-> "panicked", outcome |-> "panic", decoded |-> UnsetUint]
    ELSE IF At(rs, DecimalsIndex).failed
        THEN [pc |-> "loop", outcome |-> "decimals_failed", decoded |-> UnsetUint]
    ELSE LET d == read_uint32(At(rs, DecimalsIndex).raw)
         IN  IF d.tag = "Err"
                 THEN [pc |-> "loop", outcome |-> "decimals_undecodable",
                       decoded |-> d]
             ELSE [pc |-> "name_symbol", outcome |-> "pending", decoded |-> d]

\* lines 187-192
Token(addr, name, symbol, decimals) ==
    [ address |-> Hex(addr), name |-> name, symbol |-> symbol,
      decimals |-> decimals ]

\* lines 146-194, given the responses of the name/symbol batch: the end of
\* the iteration, the decoded values and the tokens pushed
NameSymbolStep(rs, addr, decimals) ==
    LET stop(p, o, n, s) ==
            [pc |-> p, outcome |-> o, name |-> n, symbol |-> s, pushed |-> <<>>]
    IN
    IF ~InRange(rs, NameFailedIndex)
        THEN stop("panicked", "panic", UnsetString, UnsetString)
    ELSE IF At(rs, NameFailedIndex).failed
        THEN stop("loop", "name_symbol_failed", UnsetString, UnsetString)
    ELSE IF ~InRange(rs, SymbolFailedIndex)
        THEN stop("panicked", "panic", UnsetString, UnsetString)
    ELSE IF At(rs, SymbolFailedIndex).failed
        THEN stop("loop", "name_symbol_failed", UnsetString, UnsetString)
    ELSE IF ~InRange(rs, NameIndex)
        THEN stop("panicked", "panic", UnsetString, UnsetString)
    ELSE LET n == read_string(At(rs, NameIndex).raw)
         IN  IF n.tag = "Err"
                 THEN stop("loop", "name_undecodable", n, UnsetString)
             ELSE IF ~InRange(rs, SymbolIndex)
                 THEN stop("panicked", "panic", n, UnsetString)
             ELSE LET s == read_string(At(rs, SymbolIndex).raw)
                  IN  IF s.tag = "Err"
                          THEN stop("loop", "symbol_undecodable", n, s)
                      ELSE [pc |-> "loop", outcome |-> "token", name |-> n,
                            symbol |-> s,
                            pushed |-> <<Token(addr, n.val, s.val, decimals.val)>>]

\* lines 122-132: the indices response_decimal is read at
DecimalsReads(rs) == {DecimalsIndex}

\* lines 146-169: the indices responses is read at, up to the end of the
\* iteration or the first read out of range
NameSymbolReads(rs) ==
    LET diagnostics == {NameFailedIndex, SymbolFailedIndex}
    IN
    {NameFailedIndex} \cup
    IF ~InRange(rs, NameFailedIndex) THEN {}
    ELSE IF At(rs, NameFailedIndex).failed THEN diagnostics
    ELSE {SymbolFailedIndex} \cup
         IF ~InRange(rs, SymbolFailedIndex) THEN {}
         ELSE IF At(rs, SymbolFailedIndex).failed THEN diagnostics
         ELSE {NameIndex} \cup
              IF ~InRange(rs, NameIndex) THEN {}
              ELSE IF read_string(At(rs, NameIndex).raw).tag = "Err" THEN {}
              ELSE {SymbolIndex}

\* the position of the request for `method` in a batch (1-based), 0 if none
RequestSlot(rpc_calls, method) ==
    IF \E i \in 1..Len(rpc_calls) : rpc_calls[i].data = method
        THEN CHOOSE i \in 1..Len(rpc_calls) : rpc_calls[i].data = method
    ELSE 0

\* the service's answer to the request for `method` of a batch
AnswerTo(rpc_calls, rs, method) == rs[RequestSlot(rpc_calls, method)]

\* the answer reports failed = false and its payload decodes
GoodString(r) == ~r.failed /\ read_string(r.raw).tag = "Ok"
GoodUint(r) == ~r.failed /\ read_uint32(r.raw).tag = "Ok"

(***************************************************************************)
(* map_tokens: the actions.                                                *)
(***************************************************************************)
\* line 65: the outer loop enters the next transaction trace
NextTrx ==
    /\ pc = "loop"
    /\ ti < MaxTrx
    /\ ti' = ti + 1
    /\ ci' = 0
    /\ UNCHANGED << pc, call, outcome, tokens, response_decimal,
                    decoded_decimals, responses, decoded_name, decoded_symbol,
                    rpcLog, lastOwner, verified, reads >>
    /\ UNCHANGED storeVars
    /\ UNCHANGED xferVars

\* (variant: the loop takes the next call while the name/symbol batch of
\* the current candidate is still outstanding)
FilterCall_Eager ==
    /\ pc \in {"loop", "name_symbol"}
    /\ ti >= 1
    /\ ci < MaxCalls
    /\ \E c \in Calls :
        /\ call' = c
        /\ ci' = ci + 1
        /\ outcome' = (IF Classify(c) = "candidate" THEN "pending"
                       ELSE Classify(c))
        /\ pc' = (IF Classify(c) = "candidate" THEN "decimals"
                  ELSE IF Classify(c) = "panic" THEN "panicked"
                  ELSE "loop")
    /\ response_decimal' = <<>>
    /\ decoded_decimals' = UnsetUint
    /\ responses' = <<>>
    /\ decoded_name' = UnsetString
    /\ decoded_symbol' = UnsetString
    /\ rpcLog' = <<>>
    /\ reads' = {}
    /\ UNCHANGED << ti, tokens, lastOwner, verified >>
    /\ UNCHANGED storeVars
    /\ UNCHANGED xferVars

\* lines 66-116: the inner loop takes the next call of the transaction and
\* filters and classifies it
FilterCall ==
    /\ pc = "loop"
    /\ ti >= 1
    /\ ci < MaxCalls
    /\ \E c \in Calls :
        /\ call' = c
        /\ ci' = ci + 1
        /\ outcome' = (IF Classify(c) = "candidate" THEN "pending"
                       ELSE Classify(c))
        /\ pc' = (IF Classify(c) = "candidate" THEN "decimals"
                  ELSE IF Classify(c) = "panic" THEN "panicked"
                  ELSE "loop")
    /\ response_decimal' = <<>>
    /\ decoded_decimals' = UnsetUint
    /\ responses' = <<>>
    /\ decoded_name' = UnsetString
    /\ decoded_symbol' = UnsetString
    /\ rpcLog' = <<>>
    /\ reads' = {}
    /\ UNCHANGED << ti, tokens, lastOwner, verified >>
    /\ UNCHANGED storeVars
    /\ UNCHANGED xferVars

\* lines 118-140: the decimals batch and its check
VerifyDecimals ==
    /\ pc = "decimals"
    /\ LET rpc_call_decimal == create_rpc_calls(call.address, <<DECIMALS>>)
       IN  \E rs \in eth_call(rpc_call_decimal) :
            /\ rpcLog' = Append(rpcLog, rpc_call_decimal)
            /\ lastOwner' = <<ti, ci>>
            /\ response_decimal' = rs
            /\ pc' = DecimalsStep(rs).pc
            /\ outcome' = DecimalsStep(rs).outcome
            /\ decoded_decimals' = DecimalsStep(rs).decoded
            /\ reads' = reads \cup { <<1, i>> : i \in DecimalsReads(rs) }
    /\ UNCHANGED << ti, ci, call, tokens, responses, decoded_name,
                    decoded_symbol, verified >>
    /\ UNCHANGED storeVars
    /\ UNCHANGED xferVars

\* lines 142-194: the name/symbol batch, its checks, and the push
VerifyNameSymbol ==
    /\ pc = "name_symbol"
    /\ LET rpc_call_name_symbol ==
               create_rpc_calls(call.address, <<NAME, SYMBOL>>)
       IN  \E rs \in eth_call(rpc_call_name_symbol) :
            LET step == NameSymbolStep(rs, call.address, decoded_decimals)
            IN  /\ rpcLog' = Append(rpcLog, rpc_call_name_symbol)
                /\ lastOwner' = <<ti, ci>>
                /\ responses' = rs
                /\ pc' = step.pc
                /\ outcome' = step.outcome
                /\ decoded_name' = step.name
                /\ decoded_symbol' = step.symbol
                /\ tokens' = tokens \o step.pushed
                /\ reads' = reads \cup { <<2, i>> : i \in NameSymbolReads(rs) }
                /\ verified' =
                     IF /\ GoodUint(AnswerTo(rpcLog[1], response_decimal, DECIMALS))
                        /\ GoodString(AnswerTo(rpc_call_name_symbol, rs, NAME))
                        /\ GoodString(AnswerTo(rpc_call_name_symbol, rs, SYMBOL))
                     THEN Append(verified, [pos |-> <<ti, ci>>,
                                            address |-> call.address])
                     ELSE verified
    /\ UNCHANGED << ti, ci, call, response_decimal, decoded_decimals >>
    /\ UNCHANGED storeVars
    /\ UNCHANGED xferVars

\* line 198: both loops are exhausted and Ok(Tokens { tokens }) is returned
ReturnTokens ==
    /\ pc = "loop"
    /\ pc' = "done"
    /\ UNCHANGED << ti, ci, call, outcome, tokens, response_decimal,
                    decoded_decimals, responses, decoded_name, decoded_symbol,
                    rpcLog, lastOwner, verified, reads >>
    /\ UNCHANGED storeVars
    /\ UNCHANGED xferVars

TokensStart ==
    /\ ti = 0
    /\ ci = 0
    /\ call = NoCall
    /\ outcome = "none"
    /\ tokens = <<>>
    /\ response_decimal = <<>>
    /\ decoded_decimals = UnsetUint
    /\ responses = <<>>
    /\ decoded_name = UnsetString
    /\ decoded_symbol = UnsetString
    /\ rpcLog = <<>>
    /\ lastOwner = <<0, 0>>
    /\ verified = <<>>
    /\ reads = {}

InitTokens == pc = "loop" /\ TokensStart

InitTokensIdle == pc = "done" /\ TokensStart

(***************************************************************************)
(* store_transfers.                                                        *)
(***************************************************************************)
HolderA == Zeros(19) \o <<10>>
HolderB == <<11>> \o Zeros(19)
Holders == { NULL_ADDRESS, HolderA, HolderB }

TransferRecords ==
    [ trx_hash : {<<171>>},
      from : Holders,
      to : Holders,
      token_id : {7},
      ordinal : 0..MaxOrdinal ]

\* all sequences over S of length at most n
RECURSIVE SeqsUpTo(_, _)
SeqsUpTo(S, n) ==
    IF n = 0 THEN { <<>> }
    ELSE LET shorter == SeqsUpTo(S, n - 1)
         IN  shorter \cup { Append(q, x) : q \in shorter, x \in S }

\* (variant: the holder is left out of the key)
generate_key_NoHolder(holder) == "total:" \o ":" \o Hex(TRACKED_CONTRACT)

\* (variant: every holder's hex is cut to its first two digits)
generate_key_ShortHolder(holder) ==
    "total:" \o Hex(IF holder = <<>> THEN holder ELSE Slice(holder, 0, 1))
             \o ":" \o Hex(TRACKED_CONTRACT)

\* lines 56-58: format!("total:{}:{}", Hex(holder), Hex(TRACKED_CONTRACT))
generate_key(holder) == "total:" \o Hex(holder) \o ":" \o Hex(TRACKED_CONTRACT)

\* one application s.add(ord, key, delta)
Application(ord, key, delta) == [ord |-> ord, key |-> key, delta |-> delta]

\* (variant: the null-address tests are missing)
Applications_NoNullCheck(transfer) ==
    << Application(transfer.ordinal, generate_key(transfer.from), -1),
       Application(transfer.ordinal, generate_key(transfer.to), 1) >>

\* (variant: the debit goes to the receiver's key)
Applications_DebitReceiver(transfer) ==
    (IF transfer.from # NULL_ADDRESS
        THEN << Application(transfer.ordinal, generate_key(transfer.to), -1) >>
     ELSE <<>>)
    \o
    (IF transfer.to # NULL_ADDRESS
        THEN << Application(transfer.ordinal, generate_key(transfer.to), 1) >>
     ELSE <<>>)

\* (variant: the debit carries the next ordinal)
Applications_OrdinalPlusOne(transfer) ==
    (IF transfer.from # NULL_ADDRESS
        THEN << Application(transfer.ordinal + 1, generate_key(transfer.from), -1) >>
     ELSE <<>>)
    \o
    (IF transfer.to # NULL_ADDRESS
        THEN << Application(transfer.ordinal, generate_key(transfer.to), 1) >>
     ELSE <<>>)

\* lines 44-52: the applications one transfer causes, in order
Applications(transfer) ==
    (IF transfer.from # NULL_ADDRESS
        THEN << Application(transfer.ordinal, generate_key(transfer.from), -1) >>
     ELSE <<>>)
    \o
    (IF transfer.to # NULL_ADDRESS
        THEN << Application(transfer.ordinal, generate_key(transfer.to), 1) >>
     ELSE <<>>)

\* StoreAddInt64::add: the value of the key, 0 if absent, grows by delta
StoreAdd(store, app) ==
    IF app.key \in DOMAIN store
        THEN [store EXCEPT ![app.key] = @ + app.delta]
    ELSE [k \in DOMAIN store \cup {app.key} |->
            IF k = app.key THEN app.delta ELSE store[k]]

RECURSIVE StoreAddAll(_, _)
StoreAddAll(store, apps) ==
    IF apps = <<>> THEN store
    ELSE StoreAddAll(StoreAdd(store, Head(apps)), Tail(apps))

EmptyStore == [k \in {} |-> 0]

\* the value the store holds for a key: 0 for a key never added to
StoreGet(store, key) == IF key \in DOMAIN store THEN store[key] ELSE 0

RECURSIVE Flatten(_)
Flatten(lists) ==
    IF lists = <<>> THEN <<>> ELSE Head(lists) \o Flatten(Tail(lists))

\* the applications the store has received, in the order of the calls
adds == Flatten(made)

\* lines 43-53: one iteration of the loop over transfers.transfers
StoreTransfer ==
    /\ spc = "loop"
    /\ si < Len(transfers)
    /\ LET transfer == transfers[si + 1]
       IN  /\ made' = Append(made, Applications(transfer))
           /\ ledger' = StoreAddAll(ledger, Applications(transfer))
    /\ si' = si + 1
    /\ UNCHANGED << spc, transfers >>
    /\ UNCHANGED tokenVars
    /\ UNCHANGED xferVars

\* line 54: the loop is exhausted
StoreDone ==
    /\ spc = "loop"
    /\ si = Len(transfers)
    /\ spc' = "done"
    /\ UNCHANGED << transfers, si, made, ledger >>
    /\ UNCHANGED tokenVars
    /\ UNCHANGED xferVars

InitStoreIdle ==
    /\ spc = "done"
    /\ transfers = <<>>
    /\ si = 0
    /\ made = <<>>
    /\ ledger = EmptyStore

InitStore ==
    /\ spc = "loop"
    /\ transfers \in SeqsUpTo(TransferRecords, MaxTransfers)
    /\ si = 0
    /\ made = <<>>
    /\ ledger = EmptyStore

(***************************************************************************)
(* map_transfers, lines 20-37.                                             *)
(*                                                                         *)
(* A log is what blk.events reads of it: the emitting contract, whether    *)
(* abi::erc721::events::Transfer matches it, the decoded from, to and      *)
(* token id when it does, the hash of its transaction and its block index. *)
(* Token ids of the tracked collection are far below 2^64, where to_u64    *)
(* keeps the value.                                                        *)
(***************************************************************************)
OtherContract == Zeros(19) \o <<99>>

LogSamples ==
    [ address : {TRACKED_CONTRACT, OtherContract},
      is_transfer : BOOLEAN,
      parties : { <<NULL_ADDRESS, HolderA>>, <<HolderA, HolderB>> },
      token_id : {7, 9999},
      trx_hash : { <<171>>, <<205>> } ]

\* the log at position i of the block (0-based block index i)
LogAt(sample, i) ==
    [ address |-> sample.address,
      is_transfer |-> sample.is_transfer,
      from |-> sample.parties[1],
      to |-> sample.parties[2],
      token_id |-> sample.token_id,
      trx_hash |-> sample.trx_hash,
      block_index |-> i ]

\* the log sequences of a block: the block index of a log is its position
BlockLogs ==
    { [i \in 1..Len(q) |-> LogAt(q[i], i - 1)] : q \in SeqsUpTo(LogSamples, MaxLogs) }

\* line 23: blk.events::<Transfer>(&[&TRACKED_CONTRACT]) yields a log iff
\* it was emitted by a listed contract and decodes as a Transfer event
EventOfTrackedContract(log) ==
    log.address = TRACKED_CONTRACT /\ log.is_transfer

\* (variant: from and to are exchanged)
TransferOf_Swapped(log) ==
    [ trx_hash |-> log.trx_hash,
      from |-> log.to,
      to |-> log.from,
      token_id |-> log.token_id,
      ordinal |-> log.block_index ]

\* lines 24-34: the record the closure builds of an event and its log
TransferOf(log) ==
    [ trx_hash |-> log.trx_hash,
      from |-> log.from,
      to |-> log.to,
      token_id |-> log.token_id,
      ordinal |-> log.block_index ]

\* lines 22-35: the iterator goes past the next log of the block; an event
\* of the tracked contract is mapped and collected
NextLog ==
    /\ xpc = "iterate"
    /\ li < Len(logs)
    /\ li' = li + 1
    /\ out' = (IF EventOfTrackedContract(logs[li + 1])
                  THEN Append(out, TransferOf(logs[li + 1]))
               ELSE out)
    /\ UNCHANGED << xpc, logs >>
    /\ UNCHANGED tokenVars
    /\ UNCHANGED storeVars

\* lines 21, 36: the iterator is exhausted and Ok(Transfers { .. }) returned
ReturnTransfers ==
    /\ xpc = "iterate"
    /\ li = Len(logs)
    /\ xpc' = "done"
    /\ UNCHANGED << logs, li, out >>
    /\ UNCHANGED tokenVars
    /\ UNCHANGED storeVars

InitTransfersIdle ==
    /\ xpc = "done"
    /\ logs = <<>>
    /\ li = 0
    /\ out = <<>>

InitTransfers ==
    /\ xpc = "iterate"
    /\ logs \in BlockLogs
    /\ li = 0
    /\ out = <<>>


(***************************************************************************)
(* Specifications.                                                         *)
(***************************************************************************)
\* map_tokens on any block within the bounds
Init == InitTokens /\ InitStoreIdle /\ InitTransfersIdle

Next == NextTrx \/ FilterCall \/ VerifyDecimals \/ VerifyNameSymbol \/ ReturnTokens

Spec == Init /\ [][Next]_vars

\* store_transfers on any Transfers message within the bounds
InitS == InitStore /\ InitTokensIdle /\ InitTransfersIdle

NextStore == StoreTransfer \/ StoreDone

SpecStore == InitS /\ [][NextStore]_vars

\* map_transfers on any block within the bounds
InitT == InitTransfers /\ InitTokensIdle /\ InitStoreIdle

NextTransfers == NextLog \/ ReturnTransfers

SpecTransfers == InitT /\ [][NextTransfers]_vars

(***************************************************************************)
(* Claims about map_tokens.                                                *)
(***************************************************************************)
\* the current call survived filtering and classification and its iteration
\* has ended (by a continue, by the push, or by a panic)
CandidateEnded ==
    /\ call # NoCall
    /\ Classify(call) = "candidate"
    /\ outcome # "pending"

\* the service's answers for the current call, by the request they answer
DecimalsAnswerGood ==
    /\ Len(rpcLog) >= 1
    /\ GoodUint(AnswerTo(rpcLog[1], response_decimal, DECIMALS))

NameAnswerGood ==
    /\ Len(rpcLog) >= 2
    /\ GoodString(AnswerTo(rpcLog[2], responses, NAME))

SymbolAnswerGood ==
    /\ Len(rpcLog) >= 2
    /\ GoodString(AnswerTo(rpcLog[2], responses, SYMBOL))

AllSixGood == DecimalsAnswerGood /\ NameAnswerGood /\ SymbolAnswerGood

\* the iteration of the current call pushed a token for the call's address
TokenPushed ==
    /\ outcome = "token"
    /\ tokens # <<>>
    /\ tokens[Len(tokens)].address = Hex(call.address)

\* C1: for every call that survives filtering and classification, a token
\* for the call's address is added iff the decimals, name and symbol calls
\* all report failed = false and all three payloads decode.
C1_TokenIffAllSix == CandidateEnded => (TokenPushed <=> AllSixGood)

\* C2: the value bound to the name field is the decoded answer to the name
\* request, the value bound to the symbol field is the decoded answer to
\* the symbol request, and an emitted token carries exactly these, the
\* decoded decimals answer and the call's address.
C2_FieldsFromOwnSlots ==
    /\ decoded_name.tag # "Unset"
        => decoded_name = read_string(AnswerTo(rpcLog[2], responses, NAME).raw)
    /\ decoded_symbol.tag # "Unset"
        => decoded_symbol = read_string(AnswerTo(rpcLog[2], responses, SYMBOL).raw)
    /\ TokenPushed
        => tokens[Len(tokens)] =
             [ address |-> Hex(call.address),
               name |-> read_string(AnswerTo(rpcLog[2], responses, NAME).raw).val,
               symbol |-> read_string(AnswerTo(rpcLog[2], responses, SYMBOL).raw).val,
               decimals |-> read_uint32(
                   AnswerTo(rpcLog[1], response_decimal, DECIMALS).raw).val ]

\* the addresses of the tokens, and of the verified candidates, in order
TokenAddresses == [i \in 1..Len(tokens) |-> tokens[i].address]
VerifiedAddresses == [i \in 1..Len(verified) |-> Hex(verified[i].address)]

\* C3: a failed call or a failed decode of a candidate never aborts the
\* block: the candidate is abandoned, the loops run to their end, and the
\* returned list holds the token of every candidate that fully verifies.
C3_FailureNeverAborts ==
    /\ (CandidateEnded /\ ~AllSixGood) => pc # "panicked"
    /\ pc = "done" =>
         \A i \in 1..Len(verified) :
            \E j \in 1..Len(tokens) : TokenAddresses[j] = VerifiedAddresses[i]

(***************************************************************************)
(* Claims about store_transfers.                                           *)
(***************************************************************************)
\* the applications of a given delta among those made for transfer i
AppsWithDelta(i, delta) ==
    { a \in 1..Len(made[i]) : made[i][a].delta = delta }

\* C4: a transfer from the null address causes no -1 application and a
\* transfer to the null address no +1 application; otherwise exactly one
\* application (ordinal, key(from), -1) and exactly one application
\* (ordinal, key(to), +1) are made, with the transfer's own ordinal.
C4_NullSidesSkipped ==
    /\ Len(made) = si
    /\ \A i \in 1..si :
        LET t == transfers[i]
        IN  /\ \A a \in 1..Len(made[i]) : made[i][a].delta \in {-1, 1}
            /\ Cardinality(AppsWithDelta(i, -1)) =
                 (IF t.from = NULL_ADDRESS THEN 0 ELSE 1)
            /\ Cardinality(AppsWithDelta(i, 1)) =
                 (IF t.to = NULL_ADDRESS THEN 0 ELSE 1)
            /\ \A a \in AppsWithDelta(i, -1) :
                 made[i][a] = [ord |-> t.ordinal, key |-> generate_key(t.from),
                               delta |-> -1]
            /\ \A a \in AppsWithDelta(i, 1) :
                 made[i][a] = [ord |-> t.ordinal, key |-> generate_key(t.to),
                               delta |-> 1]

\* a mint and a burn have been processed, with one application each
C4_Witness ==
    /\ si = 2
    /\ transfers[1].from = NULL_ADDRESS /\ transfers[1].to # NULL_ADDRESS
    /\ transfers[2].from # NULL_ADDRESS /\ transfers[2].to = NULL_ADDRESS
    /\ Len(made[1]) = 1 /\ Len(made[2]) = 1

BothNonNull(t) == t.from # NULL_ADDRESS /\ t.to # NULL_ADDRESS

\* C5 as stated: for every transfer whose from and to are both non-null,
\* the key of its -1 application and the key of its +1 application differ.
C5_TwoDifferentKeys ==
    \A i \in 1..si :
        BothNonNull(transfers[i]) =>
            \A a \in AppsWithDelta(i, -1), b \in AppsWithDelta(i, 1) :
                made[i][a].key # made[i][b].key

\* C5 as amended: a transfer with both parties non-null causes two
\* applications, -1 then +1, whose keys differ exactly when from and to
\* differ; a transfer of a holder to itself applies both to the same key.
C5_DifferentKeysUnlessSelfTransfer ==
    \A i \in 1..si :
        BothNonNull(transfers[i]) =>
            /\ Len(made[i]) = 2
            /\ made[i][1].delta = -1
            /\ made[i][2].delta = 1
            /\ (made[i][1].key # made[i][2].key)
                 <=> (transfers[i].from # transfers[i].to)

\* a transfer between two different holders and a transfer of a holder to
\* itself have both been processed
C5_Witness ==
    /\ si = 2
    /\ BothNonNull(transfers[1]) /\ transfers[1].from # transfers[1].to
    /\ BothNonNull(transfers[2]) /\ transfers[2].from = transfers[2].to
    /\ Len(adds) = 4

\* the transfers arrive as map_transfers emits them: increasing ordinals
OrdinalsIncrease ==
    \A i, j \in 1..Len(transfers) :
        i < j => transfers[i].ordinal < transfers[j].ordinal

\* C6 as stated: with transfers in increasing ordinal order, the
\* applications to any one key have strictly increasing ordinals.
C6_StrictlyIncreasingPerKey ==
    OrdinalsIncrease =>
        \A j, k \in 1..Len(adds) :
            (j < k /\ adds[j].key = adds[k].key) => adds[j].ord < adds[k].ord

\* C6 as amended: with transfers in increasing ordinal order, the
\* applications to any one key have non-decreasing ordinals; applications
\* of different transfers to one key have strictly increasing ordinals, and
\* the two applications of one transfer hit the same key (with the same
\* ordinal) only when the transfer's from and to are equal.
C6_IncreasingPerKeyAcrossTransfers ==
    OrdinalsIncrease =>
        /\ \A j, k \in 1..Len(adds) :
            (j < k /\ adds[j].key = adds[k].key) => adds[j].ord <= adds[k].ord
        /\ \A i, j \in 1..si :
            \A a \in 1..Len(made[i]), b \in 1..Len(made[j]) :
                made[i][a].key = made[j][b].key =>
                    /\ i < j => made[i][a].ord < made[j][b].ord
                    /\ (i = j /\ a # b) =>
                         /\ made[i][a].ord = made[j][b].ord
                         /\ transfers[i].from = transfers[i].to

\* two transfers with increasing ordinals have both touched one key
C6_Witness ==
    /\ OrdinalsIncrease
    /\ si = 2
    /\ Len(made[1]) = 2 /\ Len(made[2]) = 2
    /\ transfers[1].from # transfers[1].to
    /\ made[1][2].key = made[2][1].key

\* the sum of the deltas applied to a key
RECURSIVE SumDeltas(_, _)
SumDeltas(apps, key) ==
    IF apps = <<>> THEN 0
    ELSE (IF Head(apps).key = key THEN Head(apps).delta ELSE 0)
         + SumDeltas(Tail(apps), key)

\* the number of the transfers into a holder minus the number out of it
NetTransfers(ts, holder) ==
    Cardinality({ i \in 1..Len(ts) : ts[i].to = holder })
    - Cardinality({ i \in 1..Len(ts) : ts[i].from = holder })

\* the ledger store_transfers leaves behind when run on the list ts
RECURSIVE RunStore(_, _)
RunStore(store, ts) ==
    IF ts = <<>> THEN store
    ELSE RunStore(StoreAddAll(store, Applications(Head(ts))), Tail(ts))

IndexPermutations(n) ==
    { p \in [1..n -> 1..n] : \A i, j \in 1..n : i # j => p[i] # p[j] }

Permuted(ts, p) == [i \in 1..Len(ts) |-> ts[p[i]]]

\* C7: after store_transfers has processed a list, the value of every key
\* is the sum of the deltas applied to it, which is the number of transfers
\* into the holder minus the number out of it (the null address has no
\* key), and every permutation of the list gives the same values.
C7_FinalValueIsSumOfDeltas ==
    spc = "done" =>
        /\ \A k \in DOMAIN ledger : ledger[k] = SumDeltas(adds, k)
        /\ \A h \in Holders \ {NULL_ADDRESS} :
            StoreGet(ledger, generate_key(h)) = NetTransfers(transfers, h)
        /\ generate_key(NULL_ADDRESS) \notin DOMAIN ledger
        /\ \A p \in IndexPermutations(Len(transfers)) :
            LET other == RunStore(EmptyStore, Permuted(transfers, p))
            IN  \A h \in Holders :
                  StoreGet(other, generate_key(h))
                    = StoreGet(ledger, generate_key(h))

\* a list of two different transfers has been processed and left a balance
C7_Witness ==
    /\ spc = "done"
    /\ Len(transfers) = 2
    /\ transfers[1] # transfers[2]
    /\ BothNonNull(transfers[1])
    /\ transfers[2].from = NULL_ADDRESS
    /\ StoreGet(ledger, generate_key(HolderA)) = 2
    /\ StoreGet(ledger, generate_key(HolderB)) = -1

(***************************************************************************)
(* Claims about the filters of map_tokens.                                 *)
(***************************************************************************)
\* the total of the new-code lengths of the current call's code changes
TotalNewCode ==
    LET RECURSIVE upto(_)
        upto(n) == IF n = 0 THEN 0 ELSE upto(n - 1) + call.code_changes[n]
    IN  upto(Len(call.code_changes))

\* the iteration of the current call issued no read-only call and pushed no
\* token: it ended by a continue before line 118
EndedBeforeVerification ==
    /\ pc \in {"loop", "done"}
    /\ rpcLog = <<>>
    /\ outcome \in {"reverted", "kind", "selector", "too_small", "known_caller"}

StartsWithInitializeSelector(input) ==
    /\ Len(input) >= 4
    /\ \A i \in 1..4 : input[i] = INITIALIZE_METHOD_HASH[i]

\* C8: a non-reverted creation call is discarded by the size check exactly
\* when the new-code lengths of its code changes sum to at most 150, and a
\* proxy-initialization message call is never discarded by the size check.
C8_SizeCheckBoundary ==
    /\ (call.call_type = "CREATE" /\ ~call.state_reverted)
        => (outcome = "too_small" <=> TotalNewCode <= 150)
    /\ (call.call_type = "CREATE" /\ ~call.state_reverted /\ TotalNewCode > 150)
        => (outcome = "known_caller" \/ ~EndedBeforeVerification)
    /\ call.call_type = "CALL" => outcome # "too_small"
    /\ (/\ call.call_type = "CALL"
        /\ ~call.state_reverted
        /\ StartsWithInitializeSelector(call.input))
        => (outcome = "known_caller" \/ ~EndedBeforeVerification)

\* a proxy initialization whose code changes total 150 bytes goes on to the
\* decimals batch
C8_Witness ==
    /\ call.call_type = "CALL"
    /\ call.code_changes = <<150>>
    /\ pc = "name_symbol"
    /\ Len(rpcLog) = 1

\* C9: a message call whose input is shorter than 4 bytes or does not start
\* with the initialization selector causes no read-only call and no token,
\* and no error either; a call that is neither a creation nor a message
\* call likewise.
C9_NonMatchingNeverCandidate ==
    /\ (call.call_type = "CALL" /\ ~StartsWithInitializeSelector(call.input))
        => (EndedBeforeVerification /\ outcome \in {"reverted", "selector"})
    /\ call.call_type \notin {"CREATE", "CALL", "NONE"}
        => (EndedBeforeVerification /\ outcome \in {"reverted", "kind"})

\* a non-reverted message call with a 3-byte input has been skipped
C9_Witness ==
    /\ call.call_type = "CALL"
    /\ ~call.state_reverted
    /\ Len(call.input) = 3
    /\ call.caller = Deployer
    /\ outcome = "selector"
    /\ pc = "loop"

\* C10: a call whose caller is one of the two excluded factory addresses
\* causes no read-only call and no token, whatever its kind.
C10_FactoryCallerDiscarded ==
    (call.caller = FACTORY_1 \/ call.caller = FACTORY_2)
        => /\ EndedBeforeVerification
           /\ (/\ ~call.state_reverted
               /\ \/ call.call_type = "CREATE" /\ TotalNewCode > 150
                  \/ /\ call.call_type = "CALL"
                     /\ StartsWithInitializeSelector(call.input))
                => outcome = "known_caller"

\* a non-reverted creation with 151 bytes of new code, called by the second
\* factory, has been skipped for its caller
C10_Witness ==
    /\ ~call.state_reverted
    /\ call.call_type = "CREATE"
    /\ call.code_changes = <<100, 51>>
    /\ call.caller = FACTORY_2
    /\ outcome = "known_caller"
    /\ pc = "loop"

(***************************************************************************)
(* Claims about map_transfers.                                             *)
(***************************************************************************)
\* the positions, among the logs gone past, of the transfer events of the
\* tracked contract
TrackedEvents ==
    { i \in 1..li : logs[i].address = TRACKED_CONTRACT /\ logs[i].is_transfer }

\* the k-th of them in block order
KthTrackedEvent(k) ==
    CHOOSE i \in TrackedEvents :
        Cardinality({ j \in TrackedEvents : j < i }) = k - 1

Before(p, q) == p[1] < q[1] \/ (p[1] = q[1] /\ p[2] < q[2])

\* C12: the token list holds exactly one token per verified candidate, at
\* most one per call, in the order the candidates occur in the block
\* (transaction order, then call order): whenever an iteration has ended
\* (by a continue, the push or an abort), and so when the list is returned,
\* the addresses of the tokens are the addresses of the verified
\* candidates, in order.
C12_OneTokenPerVerifiedInOrder ==
    pc \in {"loop", "done", "panicked"} =>
        /\ TokenAddresses = VerifiedAddresses
        /\ \A i, j \in 1..Len(verified) :
            i < j => Before(verified[i].pos, verified[j].pos)

\* C13: every element map_tokens reads of a response list has an index
\* smaller than the number of requests of the batch (index 0 of the
\* decimals batch, indices 0 and 1 of the name/symbol batch), so no read is
\* out of range and the handler does not panic.
C13_ReadsWithinBatch ==
    /\ \A r \in reads : r[1] <= Len(rpcLog) /\ r[2] < Len(rpcLog[r[1]])
    /\ outcome # "panic"

\* the requests of the two batches of a candidate
DecimalsBatch == << [to_addr |-> call.address, data |-> DECIMALS] >>

NameSymbolBatch ==
    << [to_addr |-> call.address, data |-> NAME],
       [to_addr |-> call.address, data |-> SYMBOL] >>

\* C14: a candidate causes at most two batches, in a fixed order: first one
\* with the single decimals request, then one with the name and the symbol
\* request, the second only if the decimals call did not fail and its
\* payload decoded; a candidate whose decimals call fails or does not
\* decode causes exactly one batch.
C14_TwoStagedBatches ==
    /\ Len(rpcLog) <= 2
    /\ Len(rpcLog) >= 1 => rpcLog[1] = DecimalsBatch
    /\ Len(rpcLog) = 2 =>
        /\ rpcLog[2] = NameSymbolBatch
        /\ ~response_decimal[1].failed
        /\ read_uint32(response_decimal[1].raw).tag = "Ok"
    /\ pc = "name_symbol" => Len(rpcLog) = 1
    /\ CandidateEnded =>
        Len(rpcLog) = (IF /\ ~response_decimal[1].failed
                          /\ read_uint32(response_decimal[1].raw).tag = "Ok"
                       THEN 2 ELSE 1)

\* a candidate whose decimals payload does not decode has been abandoned
\* after its first batch
C14_Witness ==
    /\ CandidateEnded
    /\ pc = "loop"
    /\ outcome = "decimals_undecodable"
    /\ ~response_decimal[1].failed
    /\ Len(rpcLog) = 1

\* the current call passes every filter of lines 67-116
PassesEveryFilter ==
    /\ ~call.state_reverted
    /\ \/ call.call_type = "CREATE" /\ TotalNewCode > 150
       \/ call.call_type = "CALL" /\ StartsWithInitializeSelector(call.input)
    /\ call.caller # FACTORY_1
    /\ call.caller # FACTORY_2

\* C15: a read-only batch is issued, against the call's address, only for
\* a call that is not reverted, is a creation with more than 150 bytes of
\* new code or a message call starting with the initialization selector,
\* and whose caller is neither factory; for a call rejected by any of these
\* checks no batch is issued at all.
C15_BatchesOnlyForCandidates ==
    /\ rpcLog # <<>> => PassesEveryFilter
    /\ \A b \in 1..Len(rpcLog) :
        \A i \in 1..Len(rpcLog[b]) : rpcLog[b][i].to_addr = call.address
    /\ (call # NoCall /\ ~PassesEveryFilter) =>
        /\ rpcLog = <<>>
        /\ response_decimal = <<>>
        /\ responses = <<>>
        /\ pc \in {"loop", "done"}
    /\ (call # NoCall /\ PassesEveryFilter) => (pc = "decimals" \/ rpcLog # <<>>)

\* a proxy initialization that passes every filter has had its decimals
\* batch issued
C15_Witness ==
    /\ call.call_type = "CALL"
    /\ PassesEveryFilter
    /\ Len(rpcLog) = 1
    /\ rpcLog[1][1].to_addr = TokenB

\* C16: a result whose failed flag is set is never handed to a decoder:
\* read_uint32 is applied to the decimals result only when it is not
\* failed, and read_string to a result of the name/symbol batch only when
\* neither result of that batch is failed.
C16_FailedNeverDecoded ==
    /\ decoded_decimals.tag # "Unset" =>
        /\ ~At(response_decimal, DecimalsIndex).failed
        /\ decoded_decimals = read_uint32(At(response_decimal, DecimalsIndex).raw)
    /\ (decoded_name.tag # "Unset" \/ decoded_symbol.tag # "Unset") =>
        \A i \in 1..Len(responses) : ~responses[i].failed
    /\ decoded_name.tag # "Unset" =>
        decoded_name = read_string(At(responses, NameIndex).raw)
    /\ (\E i \in 1..Len(responses) : responses[i].failed) =>
        outcome = "name_symbol_failed"
    /\ (response_decimal # <<>> /\ response_decimal[1].failed) =>
        outcome = "decimals_failed"

\* the name call succeeded and the symbol call failed: nothing was decoded
\* of that batch
C16_Witness ==
    /\ Len(responses) = 2
    /\ ~responses[1].failed
    /\ responses[2].failed
    /\ decoded_name.tag = "Unset"
    /\ decoded_decimals.tag = "Ok"
    /\ outcome = "name_symbol_failed"

\* a batch is issued in this step
BatchIssued == Len(rpcLog') = Len(rpcLog) + 1

\* the loop moves to another call or transaction in this step
PositionMoves == << ti', ci' >> # << ti, ci >>

\* the current candidate's verification is still outstanding
VerificationOutstanding == pc \in {"decimals", "name_symbol"}

\* C17: candidates are verified one after the other in block order: a batch
\* is issued and answered in one step, for the call the loop stands at; the
\* first batch of a candidate comes after the last batch of any earlier
\* candidate, whose position is before it in the block (transaction, then
\* call); a second batch follows the first batch of the same candidate with
\* no batch of another in between; and the loop does not move on while a
\* verification is outstanding.
C17_SequentialInBlockOrder ==
    [][ /\ BatchIssued =>
            /\ ~PositionMoves
            /\ lastOwner' = << ti, ci >>
            /\ Len(rpcLog) = 0 =>
                /\ Before(lastOwner, << ti, ci >>)
                /\ response_decimal' # <<>>
            /\ Len(rpcLog) = 1 =>
                /\ lastOwner = << ti, ci >>
                /\ responses' # <<>>
        /\ PositionMoves =>
            /\ ~VerificationOutstanding
            /\ Before(<< ti, ci >>, << ti', ci' >>)
            /\ ~BatchIssued
        /\ (lastOwner' # lastOwner) => BatchIssued
      ]_vars

\* the second candidate of the block, in the second transaction, is about
\* to have its first batch issued after the first candidate's two batches
C17_Witness ==
    /\ pc = "decimals"
    /\ ti = 2
    /\ lastOwner[1] = 1
    /\ lastOwner[2] >= 1
    /\ rpcLog = <<>>

(***************************************************************************)
(* Further claims about store_transfers.                                   *)
(***************************************************************************)
\* the sum of the values of a store
RECURSIVE SumValues(_, _)
SumValues(store, keys) ==
    IF keys = {} THEN 0
    ELSE LET k == CHOOSE x \in keys : TRUE
         IN  store[k] + SumValues(store, keys \ {k})

LedgerSum == SumValues(ledger, DOMAIN ledger)

IsMint(t) == t.from = NULL_ADDRESS /\ t.to # NULL_ADDRESS

IsBurn(t) == t.from # NULL_ADDRESS /\ t.to = NULL_ADDRESS

\* the transfers processed so far
Processed == { i \in 1..si : i <= Len(transfers) }

Mints == Cardinality({ i \in Processed : IsMint(transfers[i]) })

Burns == Cardinality({ i \in Processed : IsBurn(transfers[i]) })

\* the keys whose value differs between the ledger before and after a step
ChangedKeys ==
    { k \in DOMAIN ledger \cup DOMAIN ledger' :
        StoreGet(ledger', k) # StoreGet(ledger, k) }

AbsDiff(a, b) == IF a >= b THEN a - b ELSE b - a

\* C18: starting from an empty ledger, after every processed transfer the
\* sum of all ledger values is the number of mints minus the number of
\* burns; and the step that processes a transfer between two non-null
\* addresses leaves the sum unchanged, changes at most two keys, and
\* changes each by at most 1 in absolute value.
C18_SupplyConservation ==
    /\ [](LedgerSum = Mints - Burns)
    /\ [][ (si' = si + 1 /\ BothNonNull(transfers[si + 1])) =>
            /\ LedgerSum' = LedgerSum
            /\ Cardinality(ChangedKeys) <= 2
            /\ \A k \in ChangedKeys :
                AbsDiff(StoreGet(ledger', k), StoreGet(ledger, k)) <= 1
         ]_vars

\* a mint to one holder followed by a transfer to the other has been
\* processed: the sum is 1 and two keys have a value
C18_Witness ==
    /\ spc = "done"
    /\ Len(transfers) = 2
    /\ IsMint(transfers[1])
    /\ BothNonNull(transfers[2])
    /\ transfers[2].from = transfers[1].to
    /\ transfers[2].to # transfers[2].from
    /\ LedgerSum = 1
    /\ Cardinality(DOMAIN ledger) = 2

\* byte strings a holder address can be, of different lengths too
KeyedAddresses ==
    Holders \cup { <<>>, <<0>>, <<1>>, <<16>>, <<1, 0>>, <<0, 1>>, <<1, 16>>,
                   TRACKED_CONTRACT }

\* the holders a key has been made for so far
KeyedHolders ==
    { transfers[i].from : i \in Processed } \cup
    { transfers[i].to : i \in Processed }

\* C19: two holder addresses get the same ledger key if and only if they
\* are equal, and the key is "total:", the holder in hex, ":", and the
\* tracked contract in hex: every application made carries the key of
\* the transfer's own party in this format, and the ledger has one entry
\* per non-null holder that was a party.
C19_KeyInjective ==
    /\ \A h1, h2 \in KeyedAddresses :
        (generate_key(h1) = generate_key(h2)) <=> (h1 = h2)
    /\ \A h \in KeyedAddresses :
        generate_key(h)
          = "total:" \o Hex(h) \o ":bc4ca0eda7647a8ab7c2061c2e118a18a936f13d"
    /\ \A h \in KeyedHolders \ {NULL_ADDRESS} :
        generate_key(h) \in DOMAIN ledger
    /\ Cardinality(DOMAIN ledger) = Cardinality(KeyedHolders \ {NULL_ADDRESS})
    /\ \A i \in 1..Len(made) : \A j \in 1..Len(made[i]) :
        made[i][j].key = generate_key(IF made[i][j].delta = -1
                                      THEN transfers[i].from
                                      ELSE transfers[i].to)

\* two distinct holders have been parties and have an entry each
C19_Witness ==
    /\ spc = "done"
    /\ { HolderA, HolderB } \subseteq KeyedHolders
    /\ generate_key(HolderA) \in DOMAIN ledger
    /\ generate_key(HolderB) \in DOMAIN ledger
    /\ generate_key(HolderA) # generate_key(HolderB)

====
